---- MODULE Spec2Model ----
(***************************************************************************)
(* Model of src/run.py: the Ethereum load tester.                          *)
(*                                                                         *)
(* One main thread runs main() -> EthereumLoadTester.__init__ -> run();    *)
(* every successful send_transaction starts one daemon thread running      *)
(* _wait_for_receipt.  The RPC node, the random generator and the          *)
(* operator's interrupt signal are the environment: each of their outcomes *)
(* is a nondeterministic choice.  Threads interleave between statements    *)
(* that touch shared state (the counters, the gauges, pending_txs).        *)
(* Library calls that are not RPC calls (Counter.inc, Gauge.set, set.add,  *)
(* Thread.start, Account.create, logging) are taken not to raise.          *)
(* Time is counted in units of 10 ms and only as far as the throttle of    *)
(* send_batch needs it: the model keeps, saturated at 100 ms, the time     *)
(* elapsed since each entry of account_last_used was written and since     *)
(* each sender's last submission.  A sleep takes the time asked            *)
(* for, the sleep between two transactions possibly longer; everything     *)
(* else takes no time.  The gauges for gas price, block number and         *)
(* balances and the latency histogram are written by one thread only and   *)
(* read by none; they are left out.                                        *)
(***************************************************************************)
EXTENDS Integers, FiniteSets, Sequences, TLC

\* ---------------------------------------------------------------- bounds
MaxAccounts == 2
MaxTx == 2
MaxBatches == 2

\* ---------------------------------------------------- program constants
max_retries == 30
Throttle == 10          \* 0.1 s, the window of account_last_used
TxDelay == 1            \* 0.01 s, the sleep after each transaction

None == 0

VARIABLES
  config,            \* LoadTestConfig, read-only after construction
  rpc,               \* how the node behaves during the rounds (see Nodes)
  late,              \* by how much time.sleep(0.01) overshoots
  pc,                \* position of the main thread
  attempt,           \* loop variable of _wait_for_connection (0 after it)
  running,           \* self.running
  error,             \* exception that left run() / __init__, or "none"
  exited,            \* the process has exited (daemon threads are gone)
  accounts,          \* len(self.accounts); account k has address k
  fund_i,            \* loop variable of fund_accounts
  batch_count,       \* local of run()
  i,                 \* loop variable of send_batch
  from_account,      \* local of send_batch (None before the draw)
  to_account,        \* local of send_batch
  failure,           \* exception caught by send_transaction, or "none"
  tx_hash,           \* tx_hash of send_transaction / send_batch
  main_len,          \* len(self.pending_txs) read by the main thread
  next_hash,         \* number of transaction hashes the node has handed out
  pending_txs,       \* self.pending_txs
  tracker,           \* position of each _wait_for_receipt thread
  tracker_len,       \* len(self.pending_txs) read by each tracker
  tx_sent_total,
  tx_success_total,
  tx_failed_total,
  tx_pending,
  connection_status,
  accounts_created,
  account_last_used, \* per account: time since its entry was written,
                     \* Unused when it has no entry or an old one
  throttle_sleep,    \* the sleep send_batch took before this transaction
  \* history variables (not program state)
  call,              \* what the current send_transaction call has done
  handles,           \* send_transaction calls that returned a tx_hash
  spawned,           \* Thread.start() calls
  refreshes,         \* per tracker: times it has set the tx_pending gauge
  interrupted_at,    \* pc at which KeyboardInterrupt was delivered
  round_down,        \* no _check_connection of this round returned True
  sender_attempts,   \* send_transaction calls made for rpc.sender
  down_rounds,       \* completed rounds in which every probe failed
  rounds_started,    \* send_batch calls
  check_result,      \* what the last _check_connection returned
  status1_seen,      \* receipts with status 1 that trackers have got
  since_dispatch     \* per account: time since it was last handed to
                     \* send_transaction, Throttle if it never was

cfgvars == <<config, rpc, late>>
mainvars == <<pc, attempt, running, error, exited, accounts, fund_i,
              batch_count, i, from_account, to_account, failure, tx_hash,
              main_len, next_hash>>
sharedvars == <<pending_txs, tx_sent_total, tx_success_total,
                tx_failed_total, tx_pending, connection_status,
                accounts_created>>
trackervars == <<tracker, tracker_len>>
timevars == <<account_last_used, throttle_sleep, since_dispatch>>
histvars == <<call, handles, spawned, refreshes, interrupted_at,
              round_down, sender_attempts, down_rounds, rounds_started,
              check_result, status1_seen>>
vars == <<cfgvars, mainvars, sharedvars, trackervars, histvars, timevars>>

TxIds == 1..MaxTx

\* A bounded run of the model fits in the MaxTx transaction hashes.
Rounds(c) == IF c.total_batches < 1 THEN 1 ELSE c.total_batches

Configs ==
  { c \in [num_accounts : 0..MaxAccounts,
           txs_per_batch : 0..MaxTx,
           continuous : BOOLEAN,
           total_batches : 0..MaxBatches,
           batch_interval : {0, Throttle}] :
      /\ c.continuous => c.total_batches = 1
      /\ ~c.continuous => Rounds(c) * c.txs_per_batch <= MaxTx }

\* The node is the environment.  An arbitrary node may fail or succeed at
\* every call; the other two are the mocked nodes of the test scenarios:
\* one that accepts and confirms everything, and one whose
\* send_raw_transaction rejects the transactions of one sender only.
Nodes ==
  {[mode |-> "arbitrary", sender |-> None],
   [mode |-> "always_succeeds", sender |-> None]}
  \cup {[mode |-> "rejects_sender", sender |-> x] : x \in 1..MaxAccounts}

\* outcomes of a probe, of the queries and the signing, of
\* send_raw_transaction for sender f, of wait_for_transaction_receipt
ProbeOutcomes == IF rpc.mode = "arbitrary" THEN BOOLEAN ELSE {TRUE}
PrepareOutcomes ==
  IF rpc.mode = "arbitrary" THEN {"ok", "QueryError", "SignError"}
                            ELSE {"ok"}
BroadcastOutcomes(f) ==
  CASE rpc.mode = "arbitrary" -> {"ok", "Rejected", "SequenceCollision"}
    [] rpc.mode = "always_succeeds" -> {"ok"}
    [] rpc.mode = "rejects_sender" ->
         IF f = rpc.sender THEN {"Rejected"} ELSE {"ok"}
ReceiptOutcomes ==
  IF rpc.mode = "arbitrary" THEN {"status1", "status0", "timeout", "error"}
                            ELSE {"status1"}

\* time.sleep(0.01) may return late: on this machine by 0, 40 or 90 ms
Lateness == {0, 4, 9}

\* An account without an entry and one whose entry is 100 ms old or
\* older take the same branch in send_batch: they are not told apart.
Unused == Throttle
Accounts == 1..MaxAccounts

\* d units of time pass
Later(age, d) == IF age + d > Throttle THEN Throttle ELSE age + d
Elapse(ages, d) == [a \in Accounts |-> Later(ages[a], d)]

\* no transaction follows: the times are no longer kept
ForgetTimes == /\ account_last_used' = [a \in Accounts |-> Unused]
               /\ throttle_sleep' = 0
               /\ since_dispatch' = [a \in Accounts |-> Throttle]

NoCall == [sent |-> 0, failed |-> 0, added |-> 0, spawned |-> 0, raw |-> 0]

Init ==
  /\ config \in Configs
  /\ rpc \in Nodes
  /\ late \in Lateness
  \* the timings each node is run with: exact sleeps and no interval
  \* with the node that accepts everything, late sleeps and an interval
  \* of 100 ms or more with the others
  /\ rpc.mode = "always_succeeds" =>
       late = 0 /\ config.batch_interval = 0
  /\ rpc.mode = "rejects_sender" =>
       late = 4 /\ config.batch_interval = Throttle
  /\ rpc.mode = "arbitrary" =>
       late = 9 /\ config.batch_interval = Throttle
  /\ pc = "connect"
  /\ attempt = 0
  /\ running = FALSE
  /\ error = "none"
  /\ exited = FALSE
  /\ accounts = 0
  /\ fund_i = 0
  /\ batch_count = 0
  /\ i = 0
  /\ from_account = None
  /\ to_account = None
  /\ failure = "none"
  /\ tx_hash = None
  /\ main_len = 0
  /\ next_hash = 0
  /\ pending_txs = {}
  /\ tracker = [t \in TxIds |-> "none"]
  /\ tracker_len = [t \in TxIds |-> 0]
  /\ tx_sent_total = 0
  /\ tx_success_total = 0
  /\ tx_failed_total = 0
  /\ tx_pending = 0
  /\ connection_status = 0
  /\ accounts_created = 0
  /\ call = NoCall
  /\ handles = 0
  /\ spawned = 0
  /\ refreshes = [t \in TxIds |-> 0]
  /\ interrupted_at = "none"
  /\ round_down = TRUE
  /\ sender_attempts = 0
  /\ down_rounds = 0
  /\ rounds_started = 0
  /\ check_result = "none"
  /\ status1_seen = 0
  /\ account_last_used = [a \in Accounts |-> Unused]
  /\ throttle_sleep = 0
  /\ since_dispatch = [a \in Accounts |-> Throttle]

\* ------------------------------------------------------------- helpers
MainIdle == /\ i' = 0
            /\ from_account' = None
            /\ to_account' = None
            /\ failure' = "none"
            /\ tx_hash' = None
            /\ main_len' = 0

\* An exception other than KeyboardInterrupt leaves __init__ or run():
\* main() has no handler, the traceback is printed and the process ends.
Crash(e) == /\ pc' = "crashed"
            /\ error' = e

\* An exception raised inside the try block of send_transaction.
Raise(kind) == /\ pc' = "except"
               /\ failure' = kind

\* ------------------------------------------------------------- startup
\* `for attempt in range(max_retries)`: the probe just made was the last
OutOfRetries_one_more(a) == a = max_retries

OutOfRetries(a) == a = max_retries - 1

\* one probe of _wait_for_connection; a failed probe is followed by the
\* next one or, after the last, by `raise Exception("Cannot connect...")`
wait_for_connection ==
  /\ pc = "connect"
  /\ \E ok \in BOOLEAN :
       IF ok
         THEN /\ pc' = "init_chain_id"
              /\ attempt' = 0
              /\ UNCHANGED error
         ELSE IF OutOfRetries(attempt)
           THEN /\ Crash("ConnectionUnavailable")
                /\ attempt' = 0
           ELSE /\ attempt' = attempt + 1
                /\ UNCHANGED <<pc, error>>
  /\ UNCHANGED <<cfgvars, timevars, running, exited, accounts, fund_i,
                 batch_count, i, from_account, to_account, failure, tx_hash,
                 main_len, next_hash, sharedvars, trackervars, histvars>>

init_chain_id ==
  /\ pc = "init_chain_id"
  /\ \E ok \in BOOLEAN :
       IF ok THEN pc' = "run" /\ UNCHANGED error
             ELSE Crash("RPCError")
  /\ UNCHANGED <<cfgvars, timevars, attempt, running, exited, accounts,
                 fund_i, batch_count, i, from_account, to_account, failure,
                 tx_hash, main_len, next_hash, sharedvars, trackervars,
                 histvars>>

\* run() up to the end of create_accounts
create_accounts ==
  /\ pc = "run"
  /\ running' = TRUE
  /\ accounts' = config.num_accounts
  /\ accounts_created' = config.num_accounts
  /\ pc' = "fund_dev"
  /\ UNCHANGED <<cfgvars, timevars, attempt, error, exited, fund_i,
                 batch_count, i, from_account, to_account, failure, tx_hash,
                 main_len, next_hash, pending_txs, tx_sent_total,
                 tx_success_total, tx_failed_total, tx_pending,
                 connection_status, trackervars, histvars>>

\* ------------------------------------------------------------- funding
FundNext ==
  /\ fund_i' = fund_i + 1
  /\ pc' = IF fund_i + 1 < accounts THEN "fund_send" ELSE "loop"

fund_dev_account ==
  /\ pc = "fund_dev"
  /\ \E ok \in BOOLEAN :
       IF ok
         THEN /\ pc' = IF accounts > 0 THEN "fund_send" ELSE "loop"
              /\ UNCHANGED error
         ELSE Crash("RPCError")
  /\ UNCHANGED <<cfgvars, timevars, attempt, running, exited, accounts,
                 fund_i, batch_count, i, from_account, to_account, failure,
                 tx_hash, main_len, next_hash, sharedvars, trackervars,
                 histvars>>

fund_send ==
  /\ pc = "fund_send"
  /\ \E ok \in BOOLEAN :
       IF ok THEN pc' = "fund_wait" /\ UNCHANGED fund_i
             ELSE FundNext
  /\ UNCHANGED <<cfgvars, timevars, attempt, running, error, exited, accounts,
                 batch_count, i, from_account, to_account, failure, tx_hash,
                 main_len, next_hash, sharedvars, trackervars, histvars>>

fund_wait ==
  /\ pc = "fund_wait"
  /\ FundNext
  /\ UNCHANGED <<cfgvars, timevars, attempt, running, error, exited, accounts,
                 batch_count, i, from_account, to_account, failure, tx_hash,
                 main_len, next_hash, sharedvars, trackervars, histvars>>

\* ------------------------------------------------------- the batch loop
\* The model has MaxTx transaction hashes and counts MaxBatches rounds: a
\* continuous run is cut off where the next round would exceed them.
RoundFits ==
  /\ rounds_started < MaxBatches
  /\ (rounds_started + 1) * config.txs_per_batch <= MaxTx

\* send_batch returns and run() counts the batch
BatchDone ==
  /\ batch_count' = batch_count + 1
  /\ pc' = "update_metrics"

\* `while self.running:` and the entry of send_batch
send_batch ==
  /\ pc = "loop"
  /\ running
  /\ RoundFits
  /\ rounds_started' = rounds_started + 1
  /\ round_down' = TRUE
  /\ i' = 0
  /\ account_last_used' = [a \in Accounts |-> Unused]
  /\ IF config.txs_per_batch > 0
       THEN pc' = "choose" /\ UNCHANGED batch_count
       ELSE BatchDone
  /\ UNCHANGED <<cfgvars, check_result, status1_seen, throttle_sleep,
                 since_dispatch, attempt, running, error, exited, accounts,
                 fund_i, from_account, to_account, failure, tx_hash, main_len,
                 next_hash, sharedvars, trackervars, call, handles, spawned,
                 refreshes, interrupted_at, sender_attempts, down_rounds>>

\* the test of `while to_account.address == from_account.address`
AfterDraw_no_retry(f, t) == "throttle"

AfterDraw(f, t) == IF t = f THEN "redraw" ELSE "throttle"

\* the two random.choice calls; random.choice of an empty list raises
\* IndexError, which leaves run() through its finally clause
choose_pair ==
  /\ pc = "choose"
  /\ IF accounts = 0
       THEN /\ Crash("IndexError")
            /\ running' = FALSE
            /\ UNCHANGED <<from_account, to_account>>
       ELSE /\ \E f \in 1..accounts, t \in 1..accounts :
                 /\ from_account' = f
                 /\ to_account' = t
                 /\ pc' = AfterDraw(f, t)
            /\ UNCHANGED <<error, running>>
  /\ UNCHANGED <<cfgvars, timevars, attempt, exited, accounts, fund_i,
                 batch_count, i, failure, tx_hash, main_len, next_hash,
                 sharedvars, trackervars, histvars>>

\* the body of the while loop
redraw_receiver ==
  /\ pc = "redraw"
  /\ \E t \in 1..accounts :
       /\ to_account' = t
       /\ pc' = AfterDraw(from_account, t)
  /\ UNCHANGED <<cfgvars, timevars, attempt, running, error, exited, accounts,
                 fund_i, batch_count, i, from_account, failure, tx_hash,
                 main_len, next_hash, sharedvars, trackervars, histvars>>

\* `time.sleep(0.1 - time_since_last)` for a sender used less than 100 ms
\* ago, nothing otherwise
ThrottleSleep(time_since_last) ==
  IF time_since_last < Throttle THEN Throttle - time_since_last ELSE 0

\* `if from_account.address in account_last_used: ...`
throttle ==
  /\ pc = "throttle"
  /\ LET d == ThrottleSleep(account_last_used[from_account])
     IN /\ throttle_sleep' = d
        /\ account_last_used' = Elapse(account_last_used, d)
        /\ since_dispatch' = Elapse(since_dispatch, d)
  /\ pc' = "check_connection"
  /\ UNCHANGED <<cfgvars, attempt, running, error, exited, accounts, fund_i,
                 batch_count, i, from_account, to_account, failure, tx_hash,
                 main_len, next_hash, sharedvars, trackervars, histvars>>

\* ----------------------------------------------------- send_transaction
\* connection_status.set(1) / connection_status.set(0)
GaugeFor_connected(ok) == 1

GaugeFor(ok) == IF ok THEN 1 ELSE 0

\* _check_connection: the probe either succeeds or raises; both ways it
\* sets the gauge and returns a boolean
CheckConnection(ok) ==
  /\ connection_status' = GaugeFor(ok)
  /\ check_result' = IF ok THEN "true" ELSE "false"

\* `if not self._check_connection(): raise ConnectionError(...)`
ConnectionLost_ignored(ok) == FALSE

ConnectionLost(ok) == ~ok

\* _check_connection as called by send_transaction
check_connection ==
  /\ pc = "check_connection"
  /\ call' = NoCall
  /\ since_dispatch' = [since_dispatch EXCEPT ![from_account] = 0]
  /\ sender_attempts' = IF from_account = rpc.sender
                           THEN sender_attempts + 1 ELSE sender_attempts
  /\ \E ok \in ProbeOutcomes :
       /\ CheckConnection(ok)
       /\ round_down' = (round_down /\ ~ok)
       /\ IF ConnectionLost(ok)
            THEN Raise("Disconnected")
            ELSE pc' = "prepare" /\ UNCHANGED failure
  /\ UNCHANGED <<cfgvars, status1_seen, account_last_used, throttle_sleep,
                 attempt, running, error, exited, accounts, fund_i,
                 batch_count, i, from_account, to_account, tx_hash, main_len,
                 next_hash, pending_txs, tx_sent_total, tx_success_total,
                 tx_failed_total, tx_pending, accounts_created, trackervars,
                 handles, spawned, refreshes, interrupted_at, down_rounds,
                 rounds_started>>


\* nonce, gas price and chain id queries, signing, raw_tx lookup
prepare ==
  /\ pc = "prepare"
  /\ \E r \in PrepareOutcomes :
       IF r = "ok"
         THEN pc' = "broadcast" /\ UNCHANGED failure
         ELSE Raise(r)
  /\ UNCHANGED <<cfgvars, check_result, status1_seen, timevars, attempt,
                 running, error, exited, accounts, fund_i, batch_count, i,
                 from_account, to_account, tx_hash, main_len, next_hash,
                 sharedvars, trackervars, call, handles, spawned, refreshes,
                 interrupted_at, round_down, sender_attempts, down_rounds,
                 rounds_started>>

\* send_raw_transaction: the node hands out a fresh hash or rejects
broadcast ==
  /\ pc = "broadcast"
  /\ call' = [call EXCEPT !.raw = @ + 1]
  /\ \E r \in BroadcastOutcomes(from_account) :
       IF r = "ok"
         THEN /\ next_hash < MaxTx
              /\ next_hash' = next_hash + 1
              /\ tx_hash' = next_hash + 1
              /\ pc' = "inc_sent"
              /\ UNCHANGED failure
         ELSE /\ Raise(r)
              /\ UNCHANGED <<next_hash, tx_hash>>
  /\ UNCHANGED <<cfgvars, check_result, status1_seen, timevars, attempt,
                 running, error, exited, accounts, fund_i, batch_count, i,
                 from_account, to_account, main_len, sharedvars, trackervars,
                 handles, spawned, refreshes, interrupted_at, round_down,
                 sender_attempts, down_rounds, rounds_started>>

\* tx_sent_total.inc() after send_raw_transaction has returned
inc_sent_skipped ==
  /\ pc = "inc_sent"
  /\ tx_sent_total' = tx_sent_total
  /\ call' = [call EXCEPT !.sent = @ + 1]
  /\ pc' = "add_pending"
  /\ UNCHANGED <<cfgvars, check_result, status1_seen, timevars, attempt,
                 running, error, exited, accounts, fund_i, batch_count, i,
                 from_account, to_account, failure, tx_hash, main_len,
                 next_hash, pending_txs, tx_success_total, tx_failed_total,
                 tx_pending, connection_status, accounts_created, trackervars,
                 handles, spawned, refreshes, interrupted_at, round_down,
                 sender_attempts, down_rounds, rounds_started>>

inc_sent ==
  /\ pc = "inc_sent"
  /\ tx_sent_total' = tx_sent_total + 1
  /\ call' = [call EXCEPT !.sent = @ + 1]
  /\ pc' = "add_pending"
  /\ UNCHANGED <<cfgvars, check_result, status1_seen, timevars, attempt,
                 running, error, exited, accounts, fund_i, batch_count, i,
                 from_account, to_account, failure, tx_hash, main_len,
                 next_hash, pending_txs, tx_success_total, tx_failed_total,
                 tx_pending, connection_status, accounts_created, trackervars,
                 handles, spawned, refreshes, interrupted_at, round_down,
                 sender_attempts, down_rounds, rounds_started>>

add_pending ==
  /\ pc = "add_pending"
  /\ pending_txs' = pending_txs \cup {tx_hash}
  /\ call' = [call EXCEPT !.added = @ + 1]
  /\ pc' = "read_len"
  /\ UNCHANGED <<cfgvars, check_result, status1_seen, timevars, attempt,
                 running, error, exited, accounts, fund_i, batch_count, i,
                 from_account, to_account, failure, tx_hash, main_len,
                 next_hash, tx_sent_total, tx_success_total, tx_failed_total,
                 tx_pending, connection_status, accounts_created, trackervars,
                 handles, spawned, refreshes, interrupted_at, round_down,
                 sender_attempts, down_rounds, rounds_started>>

\* the argument of tx_pending.set(...)
read_len ==
  /\ pc = "read_len"
  /\ main_len' = Cardinality(pending_txs)
  /\ pc' = "set_gauge"
  /\ UNCHANGED <<cfgvars, timevars, attempt, running, error, exited, accounts,
                 fund_i, batch_count, i, from_account, to_account, failure,
                 tx_hash, next_hash, sharedvars, trackervars, histvars>>

set_gauge ==
  /\ pc = "set_gauge"
  /\ tx_pending' = main_len
  /\ main_len' = 0
  /\ pc' = "spawn"
  /\ UNCHANGED <<cfgvars, timevars, attempt, running, error, exited, accounts,
                 fund_i, batch_count, i, from_account, to_account, failure,
                 tx_hash, next_hash, pending_txs, tx_sent_total,
                 tx_success_total, tx_failed_total, connection_status,
                 accounts_created, trackervars, histvars>>

\* Thread(...).start() and `return tx_hash`
spawn_tracker_not_started ==
  /\ pc = "spawn"
  /\ handles' = handles + 1
  /\ pc' = "record"
  /\ UNCHANGED <<cfgvars, check_result, status1_seen, timevars, attempt,
                 running, error, exited, accounts, fund_i, batch_count, i,
                 from_account, to_account, failure, tx_hash, main_len,
                 next_hash, sharedvars, trackervars, call, spawned, refreshes,
                 interrupted_at, round_down, sender_attempts, down_rounds,
                 rounds_started>>

spawn_tracker ==
  /\ pc = "spawn"
  /\ tracker' = [tracker EXCEPT ![tx_hash] = "wait"]
  /\ spawned' = spawned + 1
  /\ handles' = handles + 1
  /\ call' = [call EXCEPT !.spawned = @ + 1]
  /\ pc' = "record"
  /\ UNCHANGED <<cfgvars, check_result, status1_seen, timevars, attempt,
                 running, error, exited, accounts, fund_i, batch_count, i,
                 from_account, to_account, failure, tx_hash, main_len,
                 next_hash, sharedvars, tracker_len, refreshes,
                 interrupted_at, round_down, sender_attempts, down_rounds,
                 rounds_started>>

\* the except block: tx_sent_total.inc()
except_sent_skipped ==
  /\ pc = "except"
  /\ pc' = "except_failed"
  /\ UNCHANGED <<cfgvars, timevars, attempt, running, error, exited, accounts,
                 fund_i, batch_count, i, from_account, to_account, failure,
                 tx_hash, main_len, next_hash, sharedvars, trackervars,
                 histvars>>

except_sent ==
  /\ pc = "except"
  /\ tx_sent_total' = tx_sent_total + 1
  /\ call' = [call EXCEPT !.sent = @ + 1]
  /\ pc' = "except_failed"
  /\ UNCHANGED <<cfgvars, check_result, status1_seen, timevars, attempt,
                 running, error, exited, accounts, fund_i, batch_count, i,
                 from_account, to_account, failure, tx_hash, main_len,
                 next_hash, pending_txs, tx_success_total, tx_failed_total,
                 tx_pending, connection_status, accounts_created, trackervars,
                 handles, spawned, refreshes, interrupted_at, round_down,
                 sender_attempts, down_rounds, rounds_started>>

\* the except block: tx_failed_total.inc() and `return None`
except_failed_aborts ==
  /\ pc = "except_failed"
  /\ tx_failed_total' = tx_failed_total + 1
  /\ call' = [call EXCEPT !.failed = @ + 1]
  /\ tx_hash' = None
  /\ Crash(failure)
  /\ running' = FALSE
  /\ UNCHANGED <<cfgvars, timevars, attempt, exited, accounts, fund_i,
                 batch_count, i, from_account, to_account, failure, main_len,
                 next_hash, pending_txs, tx_sent_total, tx_success_total,
                 tx_pending, connection_status, accounts_created, trackervars,
                 handles, spawned, refreshes, interrupted_at, round_down,
                 sender_attempts, down_rounds, rounds_started, check_result,
                 status1_seen>>

except_failed ==
  /\ pc = "except_failed"
  /\ tx_failed_total' = tx_failed_total + 1
  /\ call' = [call EXCEPT !.failed = @ + 1]
  /\ tx_hash' = None
  /\ pc' = "record"
  /\ UNCHANGED <<cfgvars, check_result, status1_seen, timevars, attempt,
                 running, error, exited, accounts, fund_i, batch_count, i,
                 from_account, to_account, failure, main_len, next_hash,
                 pending_txs, tx_sent_total, tx_success_total, tx_pending,
                 connection_status, accounts_created, trackervars, handles,
                 spawned, refreshes, interrupted_at, round_down,
                 sender_attempts, down_rounds, rounds_started>>

\* send_batch after send_transaction has returned, up to the loop test:
\* the sender's entry is written, then time.sleep(0.01); the dictionary
\* is a local of send_batch and goes when it returns
record_result ==
  /\ pc = "record"
  /\ throttle_sleep' = 0
  /\ LET stamped == [account_last_used EXCEPT ![from_account] = 0]
     IN /\ account_last_used' =
             IF i + 1 < config.txs_per_batch
               THEN Elapse(stamped, TxDelay + late)
               ELSE [a \in Accounts |-> Unused]
        /\ since_dispatch' = Elapse(since_dispatch, TxDelay + late)
  /\ from_account' = None
  /\ to_account' = None
  /\ failure' = "none"
  /\ tx_hash' = None
  /\ call' = NoCall
  /\ i' = i + 1
  /\ IF i + 1 < config.txs_per_batch
       THEN pc' = "choose" /\ UNCHANGED batch_count
       ELSE BatchDone
  /\ UNCHANGED <<cfgvars, check_result, status1_seen, attempt, running, error,
                 exited, accounts, fund_i, main_len, next_hash, sharedvars,
                 trackervars, handles, spawned, refreshes, interrupted_at,
                 round_down, sender_attempts, down_rounds, rounds_started>>

\* ------------------------------------------------------ end of a round
\* update_metrics: every failure after the probe is caught and logged
update_metrics ==
  /\ pc = "update_metrics"
  /\ \E ok \in ProbeOutcomes :
       /\ CheckConnection(ok)
       /\ round_down' = (round_down /\ ~ok)
       /\ down_rounds' = IF round_down /\ ~ok THEN down_rounds + 1
                                              ELSE down_rounds
  /\ pc' = "check_stop"
  /\ UNCHANGED <<cfgvars, status1_seen, timevars, attempt, running, error,
                 exited, accounts, fund_i, batch_count, i, from_account,
                 to_account, failure, tx_hash, main_len, next_hash,
                 pending_txs, tx_sent_total, tx_success_total,
                 tx_failed_total, tx_pending, accounts_created, trackervars,
                 call, handles, spawned, refreshes, interrupted_at,
                 sender_attempts, rounds_started>>

\* the stop test of run(); `break` runs the finally clause
ShouldStop == ~config.continuous /\ batch_count >= config.total_batches

check_stop_joins ==
  /\ pc = "check_stop"
  /\ \A t \in TxIds : tracker[t] \in {"none", "done"}
  /\ IF ShouldStop
       THEN pc' = "stopped" /\ running' = FALSE /\ ForgetTimes
       ELSE pc' = "sleep" /\ UNCHANGED <<running, timevars>>
  /\ UNCHANGED <<cfgvars, attempt, error, exited, accounts, fund_i,
                 batch_count, i, from_account, to_account, failure, tx_hash,
                 main_len, next_hash, sharedvars, trackervars, histvars>>

check_stop ==
  /\ pc = "check_stop"
  /\ IF ShouldStop
       THEN pc' = "stopped" /\ running' = FALSE /\ ForgetTimes
       ELSE pc' = "sleep" /\ UNCHANGED <<running, timevars>>
  /\ UNCHANGED <<cfgvars, attempt, error, exited, accounts, fund_i,
                 batch_count, i, from_account, to_account, failure, tx_hash,
                 main_len, next_hash, sharedvars, trackervars, histvars>>

\* time.sleep(self.config.batch_interval)
batch_sleep ==
  /\ pc = "sleep"
  /\ pc' = "loop"
  /\ since_dispatch' = Elapse(since_dispatch, config.batch_interval)
  /\ UNCHANGED <<cfgvars, account_last_used, throttle_sleep, attempt, running,
                 error, exited, accounts, fund_i, batch_count, i,
                 from_account, to_account, failure, tx_hash, main_len,
                 next_hash, sharedvars, trackervars, histvars>>

\* ------------------------------------------------- _wait_for_receipt
\* `if tx_hash.hex() in self.pending_txs: self.pending_txs.remove(...)`:
\* the tracker goes on to refresh the gauge only if it removed its entry
AfterRemove(t) == IF t \in pending_txs THEN "read_len" ELSE "done"

\* tx_failed_total.inc() for a receipt whose status is not 1 and in the
\* except block
ReceiptFailures_receipt_only(r) == IF r = "status0" THEN 1 ELSE 0

ReceiptFailures(r) == IF r = "status1" THEN 0 ELSE 1

\* `if receipt['status'] == 1: tx_success_total.inc()`
ReceiptSuccesses_any_receipt(r) ==
  IF r \in {"status1", "status0"} THEN 1 ELSE 0

ReceiptSuccesses(r) == IF r = "status1" THEN 1 ELSE 0

\* wait_for_transaction_receipt returns a receipt, times out after 120 s
\* or fails.  With a receipt the tracker counts the status and removes the
\* hash from pending_txs; on an exception it counts a failure and returns.
\* No thread reads the counters, so the increment and the removal that
\* follows it are one step.
wait_for_receipt(t) ==
  /\ ~exited
  /\ tracker[t] = "wait"
  /\ \E r \in ReceiptOutcomes :
       /\ status1_seen' = IF r = "status1" THEN status1_seen + 1
                                           ELSE status1_seen
       /\ tx_success_total' = tx_success_total + ReceiptSuccesses(r)
       /\ tx_failed_total' = tx_failed_total + ReceiptFailures(r)
       /\ IF r \in {"status1", "status0"}
            THEN /\ pending_txs' = pending_txs \ {t}
                 /\ tracker' = [tracker EXCEPT ![t] = AfterRemove(t)]
            ELSE /\ tracker' = [tracker EXCEPT ![t] = "done"]
                 /\ UNCHANGED pending_txs
  /\ UNCHANGED <<cfgvars, timevars, mainvars, tx_sent_total, tx_pending,
                 connection_status, accounts_created, tracker_len, call,
                 handles, spawned, refreshes, interrupted_at, round_down,
                 sender_attempts, down_rounds, rounds_started, check_result>>

tracker_read_len(t) ==
  /\ ~exited
  /\ tracker[t] = "read_len"
  /\ tracker_len' = [tracker_len EXCEPT ![t] = Cardinality(pending_txs)]
  /\ tracker' = [tracker EXCEPT ![t] = "set_gauge"]
  /\ UNCHANGED <<cfgvars, timevars, mainvars, sharedvars, histvars>>

tracker_set_gauge(t) ==
  /\ ~exited
  /\ tracker[t] = "set_gauge"
  /\ tx_pending' = tracker_len[t]
  /\ tracker_len' = [tracker_len EXCEPT ![t] = 0]
  /\ refreshes' = [refreshes EXCEPT ![t] = @ + 1]
  /\ tracker' = [tracker EXCEPT ![t] = "done"]
  /\ UNCHANGED <<cfgvars, check_result, status1_seen, timevars, mainvars,
                 pending_txs, tx_sent_total, tx_success_total,
                 tx_failed_total, connection_status, accounts_created, call,
                 handles, spawned, interrupted_at, round_down,
                 sender_attempts, down_rounds, rounds_started>>

\* ------------------------------------------- interrupt and process exit
FundingPcs == {"fund_dev", "fund_send", "fund_wait"}
TryPcs == {"loop", "choose", "redraw", "throttle", "check_connection",
           "prepare",
           "broadcast", "inc_sent", "add_pending", "read_len", "set_gauge",
           "spawn", "except", "except_failed", "record", "update_metrics",
           "check_stop", "sleep"}

\* Statements of send_transaction after the entry probe
InCallPcs == {"prepare", "broadcast", "inc_sent", "add_pending", "read_len",
              "set_gauge", "spawn", "except", "except_failed"}
SendPcs == {"check_connection"} \cup InCallPcs

\* Statements of send_transaction between the first and the last of its
\* updates to the counters, the pending set and the thread list
MidUpdatePcs == {"add_pending", "read_len", "set_gauge", "spawn",
                 "except_failed"}

InterruptPoint(p) ==
  CASE p \in FundingPcs -> "funding"
    [] p \in MidUpdatePcs -> "mid_update"
    [] OTHER -> "round"

\* KeyboardInterrupt in the main thread.  It is not an Exception, so only
\* the handler of run() catches it, and only inside the try block.
keyboard_interrupt ==
  /\ pc \in FundingPcs \cup TryPcs
  /\ interrupted_at' = InterruptPoint(pc)
  /\ IF pc \in TryPcs
       THEN pc' = "stopped" /\ running' = FALSE /\ UNCHANGED error
       ELSE Crash("KeyboardInterrupt") /\ UNCHANGED running
  /\ MainIdle
  /\ call' = NoCall
  /\ ForgetTimes
  /\ UNCHANGED <<cfgvars, check_result, status1_seen, attempt, exited,
                 accounts, fund_i, batch_count, next_hash, sharedvars,
                 trackervars, handles, spawned, refreshes, round_down,
                 sender_attempts, down_rounds, rounds_started>>

\* main() returns or dies: the interpreter exits and takes the daemon
\* threads with it
process_exit ==
  /\ pc \in {"stopped", "crashed"}
  /\ ~exited
  /\ exited' = TRUE
  /\ tracker' = [t \in TxIds |->
                   IF tracker[t] \in {"none", "done"} THEN tracker[t]
                                                      ELSE "killed"]
  /\ tracker_len' = [t \in TxIds |-> 0]
  /\ UNCHANGED <<cfgvars, timevars, pc, attempt, running, error, accounts,
                 fund_i, batch_count, i, from_account, to_account, failure,
                 tx_hash, main_len, next_hash, sharedvars, histvars>>

Next ==
  \/ wait_for_connection
  \/ init_chain_id
  \/ create_accounts
  \/ fund_dev_account
  \/ fund_send
  \/ fund_wait
  \/ send_batch
  \/ choose_pair
  \/ redraw_receiver
  \/ throttle
  \/ check_connection
  \/ prepare
  \/ broadcast
  \/ inc_sent
  \/ add_pending
  \/ read_len
  \/ set_gauge
  \/ spawn_tracker
  \/ except_sent
  \/ except_failed
  \/ record_result
  \/ update_metrics
  \/ check_stop
  \/ batch_sleep
  \/ keyboard_interrupt
  \/ process_exit
  \/ \E t \in TxIds : wait_for_receipt(t)
  \/ \E t \in TxIds : tracker_read_len(t)
  \/ \E t \in TxIds : tracker_set_gauge(t)

Spec == Init /\ [][Next]_vars

\* ================================================================ claims
TrackerIds(states) == {t \in TxIds : tracker[t] \in states}

\* C1: when a tracker has finished, on whichever outcome, its hash is no
\* longer in pending_txs and it has refreshed the tx_pending gauge exactly
\* once.
C1_CleanupOnEveryExit ==
  \A t \in TxIds :
    tracker[t] = "done" => (t \notin pending_txs /\ refreshes[t] = 1)

\* No thread is between its update of pending_txs and the end of the
\* statements that go with it, and no submission was cut short there.
NoUpdateInProgress ==
  /\ pc \notin MidUpdatePcs
  /\ interrupted_at # "mid_update"
  /\ TrackerIds({"read_len", "set_gauge"}) = {}

\* C2: while the process lives and no update is in progress, a hash is in
\* pending_txs if and only if its tracker has been started and has not
\* finished.
C2_PendingIffTrackerRunning ==
  (~exited /\ NoUpdateInProgress) =>
    \A t \in TxIds : (t \in pending_txs <=> tracker[t] = "wait")

AllTrackersResolved == TrackerIds({"none", "done"}) = TxIds

\* C3: once every started tracker has finished (complete submissions
\* only), tx_success_total + tx_failed_total = tx_sent_total.
C3_CountersBalance ==
  (AllTrackersResolved /\ pc \notin MidUpdatePcs
     /\ interrupted_at # "mid_update") =>
    tx_success_total + tx_failed_total = tx_sent_total

\* two trackers have finished, one counted a success and one a failure
C3_Witness ==
  /\ AllTrackersResolved
  /\ pc \notin MidUpdatePcs
  /\ interrupted_at = "none"
  /\ TrackerIds({"done"}) = {1, 2}
  /\ tx_success_total = 1
  /\ tx_failed_total = 1

\* C4: a send_transaction call that failed returns None after exactly one
\* increment of tx_sent_total and one of tx_failed_total, without touching
\* pending_txs and without starting a thread; with a node that rejects one
\* sender only, between calls tx_failed_total is the number of that
\* sender's calls and tx_sent_total the number of all calls.
C4_FailedSubmission ==
  /\ (pc = "record" /\ failure # "none") =>
       /\ tx_hash = None
       /\ call.sent = 1 /\ call.failed = 1
       /\ call.added = 0 /\ call.spawned = 0
  /\ (rpc.mode = "rejects_sender" /\ pc \notin InCallPcs
        /\ interrupted_at = "none") =>
       /\ tx_failed_total = sender_attempts
       /\ tx_sent_total = handles + sender_attempts

\* the rejected sender has just been turned away, after another sender's
\* transaction was accepted
C4_Witness ==
  /\ rpc.mode = "rejects_sender"
  /\ pc = "record"
  /\ failure = "Rejected"
  /\ from_account = rpc.sender
  /\ handles >= 1

\* C5: a send_transaction call that succeeded returns the hash after one
\* increment of tx_sent_total, none of tx_failed_total, one insertion into
\* pending_txs and one thread start; threads started and hashes returned
\* are equal in number; no step of send_transaction changes
\* tx_success_total.
C5_SuccessfulSubmission ==
  /\ [](/\ (pc = "record" /\ failure = "none") =>
             /\ tx_hash \in TxIds
             /\ tracker[tx_hash] # "none"
             /\ call = [sent |-> 1, failed |-> 0, added |-> 1,
                        spawned |-> 1, raw |-> 1]
        /\ spawned = handles
        /\ Cardinality(TrackerIds({"none"})) = MaxTx - handles)
  /\ [][(pc \in SendPcs /\ pc' # pc) =>
          tx_success_total' = tx_success_total]_vars

\* the second successful submission of a run has returned
C5_Witness ==
  /\ pc = "record"
  /\ failure = "none"
  /\ tx_hash = 2
  /\ handles = 2

\* C6: in a round whose probes all return False, every send_transaction
\* call fails as Disconnected without reaching send_raw_transaction
\* (counted sent and failed, None returned, nothing added or started) and
\* connection_status is 0; unless the configured number of batches is
\* reached, run() goes on to the sleep and to the next send_batch.
C6_DisconnectedRound ==
  /\ [](/\ (pc = "record" /\ round_down) =>
             /\ failure = "Disconnected"
             /\ tx_hash = None
             /\ call = [sent |-> 1, failed |-> 1, added |-> 0,
                        spawned |-> 0, raw |-> 0]
        /\ (pc \in {"except", "except_failed", "record", "check_stop",
                    "sleep"} /\ round_down) => connection_status = 0)
  /\ [][(/\ round_down
         /\ pc' # pc
         /\ interrupted_at' = "none"
         /\ ~(pc = "check_stop" /\ ShouldStop)) =>
          /\ pc = "check_stop" => pc' = "sleep"
          /\ pc = "sleep" => pc' = "loop"
          /\ pc = "loop" => /\ pc' \in {"choose", "update_metrics"}
                            /\ rounds_started' = rounds_started + 1]_vars

\* the second round has started after a first round in which every
\* submission was attempted while disconnected
C6_Witness ==
  /\ pc = "choose"
  /\ rounds_started = 2
  /\ down_rounds = 1
  /\ connection_status = 0
  /\ tx_sent_total >= 1
  /\ tx_failed_total = tx_sent_total

\* C7: a bounded run starts no round beyond total_batches and, when it
\* stops without an interrupt, has executed exactly total_batches rounds.
C7_ExactlyTotalBatches ==
  ~config.continuous =>
    /\ rounds_started <= config.total_batches
    /\ (pc = "stopped" /\ interrupted_at = "none") =>
         batch_count = config.total_batches

\* C8: with a node that accepts and confirms everything, a bounded run of
\* total_batches rounds has, when the process ends, counted every
\* transaction as sent and as successful and none as failed.
C8_AllConfirmedAtEnd ==
  (/\ rpc.mode = "always_succeeds"
   /\ ~config.continuous
   /\ config.total_batches >= 1
   /\ pc = "stopped"
   /\ interrupted_at = "none"
   /\ exited) =>
    /\ tx_sent_total = config.total_batches * config.txs_per_batch
    /\ tx_failed_total = 0
    /\ tx_success_total = config.total_batches * config.txs_per_batch

\* C9: the pair handed to send_transaction is a pair of two different
\* accounts of the pool.
C9_SenderIsNotReceiver ==
  pc \in SendPcs =>
    /\ from_account \in 1..accounts
    /\ to_account \in 1..accounts
    /\ from_account # to_account

\* a pair has been handed to send_transaction after an earlier submission
C9_Witness ==
  /\ pc = "check_connection"
  /\ accounts >= 2
  /\ tx_sent_total >= 1

\* C10: with fewer than two accounts, the first request for a pair ends
\* with an error (the IndexError of random.choice counts as one).
C10_SmallPoolFails ==
  (/\ config.num_accounts < 2
   /\ config.txs_per_batch >= 1
   /\ rounds_started >= 1
   /\ pc # "choose"
   /\ interrupted_at = "none") =>
    (pc = "crashed" /\ error \in {"EmptyPool", "IndexError"})

\* C11: whenever a sender is handed to send_transaction, at least 100 ms
\* have passed since the previous submission from the same sender.
C11_ThrottleBetweenSubmissions ==
  pc = "check_connection" => since_dispatch[from_account] >= Throttle

\* C12: once an interrupt has been delivered to run() (while funding,
\* in a round or in the sleep between rounds), the run is in Stopped with
\* running false and no error has left run().
C12_InterruptStopsCleanly ==
  interrupted_at # "none" =>
    /\ pc = "stopped"
    /\ ~running
    /\ error = "none"

\* C13: the startup wait makes at most max_retries probes (attempt counts
\* the failed ones), leaves at the first probe that succeeds, and raises
\* the connection error only when the last of max_retries probes has
\* failed; after that error there are no accounts, no funding transfer
\* and no round.
C13_StartupWait ==
  /\ [](/\ pc = "connect" => attempt <= max_retries - 1
        /\ error = "ConnectionUnavailable" =>
             /\ pc = "crashed"
             /\ accounts = 0 /\ accounts_created = 0
             /\ fund_i = 0 /\ rounds_started = 0
             /\ tx_sent_total = 0 /\ ~running)
  /\ [][pc = "connect" =>
          \/ pc' = "connect" /\ attempt' = attempt + 1
          \/ pc' = "init_chain_id"
          \/ /\ attempt = max_retries - 1
             /\ pc' = "crashed"
             /\ error' = "ConnectionUnavailable"]_vars

\* the retry budget has been used up
C13_Witness ==
  /\ pc = "crashed"
  /\ error = "ConnectionUnavailable"

\* C14: _check_connection never raises.  Every call (at the entry of
\* send_transaction and in update_metrics) returns true or false, nothing
\* but the caller's own `raise ConnectionError` follows a false result,
\* and after the call the connection gauge is 1 exactly when the result
\* is true and 0 exactly when it is false.
C14_CheckNeverRaises ==
  /\ [](check_result # "none" =>
          /\ check_result = "true" <=> connection_status = 1
          /\ check_result = "false" <=> connection_status = 0)
  /\ [][(/\ pc \in {"check_connection", "update_metrics"}
         /\ pc' # pc
         /\ interrupted_at' = interrupted_at) =>
          /\ check_result' \in {"true", "false"}
          /\ error' = "none"
          /\ pc' \in {"prepare", "except", "check_stop"}
          /\ pc' = "prepare" => check_result' = "true"
          /\ pc' = "except" =>
               check_result' = "false" /\ failure' = "Disconnected"]_vars

\* a probe has failed inside send_transaction: the call returned false
C14_Witness ==
  /\ pc = "except"
  /\ failure = "Disconnected"
  /\ check_result = "false"
  /\ connection_status = 0

\* C15: funding is sequential and comes before all load, and no failure
\* while funding keeps the run from reaching the rounds: the transfers
\* are made one account after the other, nothing is submitted while
\* funding, a round is entered only after an attempt for every account,
\* and a run that was not interrupted does not die before its first
\* round.
C15_FundingNeverBlocks ==
  /\ pc \in {"fund_send", "fund_wait"} => fund_i < accounts
  /\ pc \in FundingPcs => rounds_started = 0 /\ tx_sent_total = 0
  /\ rounds_started >= 1 => fund_i = accounts
  /\ (running /\ pc = "crashed" /\ interrupted_at = "none") =>
       rounds_started >= 1

\* C16: with two or more accounts and no interrupt, the rounds are never
\* cut short: sent counts one attempt for every finished call of
\* send_transaction, there are exactly txs_per_batch of them in every
\* completed round (batch_count counts those), no error leaves run()
\* once the rounds have begun, and the run stops only by its own stop
\* test.
C16_RoundsAreComplete ==
  (config.num_accounts >= 2 /\ interrupted_at = "none") =>
    /\ pc \in {"choose", "redraw", "throttle", "record"} \cup SendPcs =>
         /\ i < config.txs_per_batch
         /\ tx_sent_total =
              batch_count * config.txs_per_batch + i + call.sent
    /\ pc = "record" => call.sent = 1
    /\ pc \in {"update_metrics", "check_stop", "sleep", "loop", "stopped"} =>
         tx_sent_total = batch_count * config.txs_per_batch
    /\ rounds_started >= 1 => pc # "crashed" /\ error = "none"
    /\ pc = "stopped" => ShouldStop

\* a round of two is complete although one submission and the tracker of
\* the other have failed
C16_Witness ==
  /\ pc = "update_metrics"
  /\ interrupted_at = "none"
  /\ config.txs_per_batch = 2
  /\ batch_count = 1
  /\ spawned = 1
  /\ tx_failed_total = 2
  /\ tx_sent_total = 2

\* the steps of the main thread inside run(), and those of one tracker
MainStep ==
  \/ send_batch \/ choose_pair \/ redraw_receiver \/ throttle
  \/ check_connection \/ prepare \/ broadcast \/ inc_sent \/ add_pending
  \/ read_len \/ set_gauge \/ spawn_tracker \/ except_sent \/ except_failed
  \/ record_result \/ update_metrics \/ check_stop \/ batch_sleep

TrackerStep(t) ==
  wait_for_receipt(t) \/ tracker_read_len(t) \/ tracker_set_gauge(t)

\* C17: the main thread never waits for a tracker and no tracker waits
\* for another.  Wherever the main thread stands in the round loop its
\* next step can be taken, whatever the trackers are doing (at the loop
\* head: unless the run is at the limit of the model), and every
\* unfinished tracker can take its next step whatever the others do.
C17_NobodyWaitsForTrackers ==
  /\ (pc \in TryPcs \ {"loop"}) => ENABLED MainStep
  /\ (pc = "loop" /\ RoundFits) => ENABLED MainStep
  /\ \A t \in TxIds :
       (~exited /\ tracker[t] \in {"wait", "read_len", "set_gauge"}) =>
         ENABLED TrackerStep(t)

\* a bounded run has reached Stopped by its stop test, and the tracker of
\* its second transaction has finished, while the tracker of the first
\* is still waiting
C17_Witness ==
  /\ pc = "stopped"
  /\ interrupted_at = "none"
  /\ ~config.continuous
  /\ rounds_started = 2
  /\ tracker[1] = "wait"
  /\ tracker[2] = "done"

\* C18: while the process lives and neither the main thread nor a tracker
\* is between its change of pending_txs and its tx_pending.set, the gauge
\* equals the size of pending_txs.
C18_GaugeMatchesPendingSet ==
  (~exited /\ NoUpdateInProgress) => tx_pending = Cardinality(pending_txs)

\* C19: in every reachable state success + failed <= sent, and no step of
\* the main thread or of a tracker, in any interleaving, lowers one of
\* the three counters.
C19_CountersMonotone ==
  /\ [](tx_success_total + tx_failed_total <= tx_sent_total)
  /\ [][/\ tx_sent_total' >= tx_sent_total
        /\ tx_success_total' >= tx_success_total
        /\ tx_failed_total' >= tx_failed_total]_vars

\* a tracker has counted its transaction while the main thread is inside
\* a later submission, and every transaction sent so far is accounted
C19_Witness ==
  /\ pc \in InCallPcs
  /\ tracker[1] = "done"
  /\ tx_sent_total >= 1
  /\ tx_success_total + tx_failed_total = tx_sent_total

\* C20: each tracker counts its transaction exactly once.  The step in
\* which its wait ends increments success alone when the receipt has
\* status 1, and failed alone otherwise (status 0, a timeout, an error);
\* no other step of a tracker touches the two counters, and success
\* equals the number of receipts with status 1.
C20_TrackerCountsOnce ==
  /\ [](tx_success_total = status1_seen)
  /\ [][\A t \in TxIds :
          (tracker[t] = "wait" /\ tracker'[t] \notin {"wait", "killed"}) =>
            IF status1_seen' = status1_seen + 1
              THEN /\ tx_success_total' = tx_success_total + 1
                   /\ tx_failed_total' = tx_failed_total
              ELSE /\ status1_seen' = status1_seen
                   /\ tx_success_total' = tx_success_total
                   /\ tx_failed_total' = tx_failed_total + 1]_vars
  /\ [][(/\ tracker' # tracker
         /\ \A t \in TxIds : tracker[t] = "wait" =>
                                tracker'[t] \in {"wait", "killed"}) =>
          /\ tx_success_total' = tx_success_total
          /\ tx_failed_total' = tx_failed_total]_vars

\* both trackers have finished: the first without a receipt (its hash
\* was never removed), the second with status 1
C20_Witness ==
  /\ tracker[1] = "done" /\ 1 \in pending_txs
  /\ tracker[2] = "done" /\ 2 \notin pending_txs
  /\ status1_seen = 1
  /\ tx_success_total = 1
  /\ tx_failed_total = 1

====
